---- MODULE Spec2Model ----
(***************************************************************************)
(* Authentication service of the AI Learning Platform backend:             *)
(* controllers/auth.controller.js, middlewares/auth.js, the register       *)
(* validation chain and routes/authRoutes.js, over a user collection and   *)
(* the uploads/profiles directory; with it the upload configuration        *)
(* (config/multer.config.js), the documents router and the Quiz model.     *)
(*                                                                         *)
(* The controller file holds two definitions of every handler; the first   *)
(* (lines 1-339) keeps the source names, the second (lines 341-585) has    *)
(* the suffix 2.                                                           *)
(***************************************************************************)
EXTENDS Integers, Sequences, FiniteSets, TLC

VARIABLES users, nextId, files, nextFile, issued, cookie, stage, req, res,
          pending, documents, quiz

vars == <<users, nextId, files, nextFile, issued, cookie, stage, req, res,
          pending, documents, quiz>>

\* what the handlers of the auth controller never touch: the register
\* requests between their two awaits, the Document and the Quiz collection
others == <<pending, documents, quiz>>

(* ------------------------------ bounds --------------------------------- *)

\* user records ever created
MaxUsers == 2

\* image files ever uploaded
MaxFiles == 2

\* questions of a generated quiz
MaxQuestions == 2

\* answers given to a quiz
MaxAnswers == 3

\* register requests in progress at the same time
MaxInFlight == 2

(* --------------------------- request inputs ---------------------------- *)

\* a body field that is absent (undefined)
Undefined == <<>>

NameShort == "Al"
NameGood == "Alice"
NameLong == "Maximilian-Alexander-Montgomery"

EmailA == <<"a", "@", "b", ".", "c", "o">>
EmailB == <<"c", "@", "d", ".", "c", "o">>
EmailBad == <<"a", "b", ".", "c", "o">>
Emails == {EmailA, EmailB, EmailBad}

PwStrong == <<"A", "b", "c", "d", "e", "f", "1", "@">>
PwStrong2 == <<"Z", "y", "x", "w", "v", "u", "2", "!">>
PwFive == <<"A", "b", "1", "@", "c">>
PwSix == <<"a", "b", "c", "d", "e", "f">>
PwLong == <<"A", "1", "@">> \o [i \in 1..28 |-> "a"]

UpperCase == {"A", "Z"}
LowerCase == {"a", "b", "c", "d", "e", "f", "u", "v", "w", "x", "y"}
Digits == {"1", "2"}
Specials == {"@", "$", "!", "%", "*", "?", "&"}

Range(s) == {s[i] : i \in DOMAIN s}

(* ------------------------ bcrypt (library) ----------------------------- *)

\* bcrypt.hash(password, 10)
hash(password) == [kind |-> "bcrypt", of |-> password]

\* a value written into the password field without hashing
plain(password) == [kind |-> "plain", of |-> password]

\* a comparison that accepts every password
compare_any(password, stored) == TRUE

\* bcrypt.compare(password, stored): false for anything that is not a hash
compare(password, stored) == stored.kind = "bcrypt" /\ stored.of = password

(* ------------------- jsonwebtoken (library), tokens --------------------- *)

NoToken == [id |-> 0, sig |-> "none", expired |-> FALSE]

\* a token as presented with a request; expired tells whether its
\* one-hour validity window has passed when it is presented
SignedToken(id, expired) == [id |-> id, sig |-> "JWT_SECRET", expired |-> expired]

ForgedToken == [id |-> 1, sig |-> "other", expired |-> FALSE]

\* jwt.verify(token, JWT_SECRET): err on a bad signature or an expired token
jwtVerifyErr(token) == token.sig # "JWT_SECRET" \/ token.expired

\* tokens a client can present: those issued to it, fresh or expired, or a forgery
PresentableTokens ==
    {SignedToken(id, e) : id \in issued, e \in BOOLEAN} \cup {ForgedToken}

NoHeader == [scheme |-> "none", token |-> NoToken]

\* the Authorization header: absent, "Bearer <token>", or another scheme
Headers ==
    {NoHeader}
        \cup {[scheme |-> "Bearer", token |-> t] : t \in PresentableTokens}
        \cup {[scheme |-> "Basic", token |-> SignedToken(id, FALSE)] : id \in issued}

(* --------------------------- file storage ------------------------------ *)

NoFile == 0

NoImage == [dir |-> "", name |-> 0]

\* `uploads/profiles/${filename}`
ProfilePath(filename) == [dir |-> "uploads/profiles", name |-> filename]

\* multer disk storage for profile images: the accepted file is on disk
\* before the controller runs
profileStorage(fs, file) == IF file = NoFile THEN fs ELSE fs \cup {ProfilePath(file)}

\* the optional upload of a request: none, or a file with a fresh name
FileInputs == {NoFile} \cup (IF nextFile <= MaxFiles THEN {nextFile} ELSE {})

nextFileAfter(file) == IF file = NoFile THEN nextFile ELSE nextFile + 1

deleteFile(fs, filePath) == IF filePath \in fs THEN fs \ {filePath} ELSE fs

\* a cleanup that leaves the file in place
cleanupUploadedFile_noop(fs, file) == fs

cleanupUploadedFile(fs, file) ==
    IF file # NoFile THEN deleteFile(fs, ProfilePath(file)) ELSE fs

(* ----------------------------- responses ------------------------------- *)

Json(status, success, message) ==
    [status |-> status, body |-> [success |-> success, message |-> message]]

JsonData(status, message, data) ==
    [status |-> status, body |-> [success |-> TRUE, message |-> message, data |-> data]]

NODE_ENV == "production"

\* the catch blocks: error is error.message in development, "Internal
\* server error" otherwise
JsonError(message, fault) ==
    [status |-> 500,
     body |-> [success |-> FALSE, message |-> message,
               error |-> IF NODE_ENV = "development" THEN fault ELSE "Internal server error"]]

\* the catch blocks of the second definitions: error is always error.message
JsonError2(message, fault) ==
    [status |-> 500, body |-> [success |-> FALSE, message |-> message, error |-> fault]]

NoResponse == [status |-> 0, body |-> <<>>]

\* the error-handling middleware of the server (middlewares/auth.js lines
\* 141-148), which answers an error passed to next(err)
globalErrorHandler(err) ==
    [status |-> 500,
     body |-> [message |-> "Something went wrong!",
               error |-> IF NODE_ENV = "development" THEN err ELSE "{}"]]

\* a view that is the whole record
formatUserResponse_whole(us, id) == [_id |-> id] @@ us[id]

\* createdAt is left out: the model has no clock
formatUserResponse(us, id) ==
    [_id |-> id, name |-> us[id].name, email |-> us[id].email,
     profileImage |-> us[id].profileImage]

\* .select("-password") on a query result
selectMinusPassword(us, id) == formatUserResponse(us, id)

(* --------------------------- user collection --------------------------- *)

Ids == DOMAIN users

\* utils/verifyEmail.js: whether a user with this email exists
verifyEmail(email) == \E id \in Ids : users[id].email = email

\* User.findOne({ email })
findOneByEmail(email) == {id \in Ids : users[id].email = email}

\* a collection without unique index
uniqueViolation_off(us) == FALSE

\* the unique index on email: a write that would give two records one email throws
uniqueViolation(us) ==
    \E i, j \in DOMAIN us : i # j /\ us[i].email = us[j].email

(* ---------------------------- the request ------------------------------ *)

EmptyBody == <<>>

\* the request as a handler sees it; a handler's request carries the
\* identity authMiddleware attached (0 on a public route)
Request(op, route, user, body, file, fault) ==
    [op |-> op, route |-> route, body |-> body, file |-> file, fault |-> fault,
     user |-> user, cookie |-> NoToken, header |-> NoHeader, validationErrors |-> {}]

\* what a handler leaves behind
Outcome(us, nid, fs, iss, ck, r) ==
    [users |-> us, nextId |-> nid, files |-> fs, issued |-> iss, cookie |-> ck, res |-> r]

Apply(out) ==
    /\ users' = out.users
    /\ nextId' = out.nextId
    /\ files' = out.files
    /\ issued' = out.issued
    /\ cookie' = out.cookie
    /\ res' = out.res
    /\ UNCHANGED others

(* ------------------------------ register ------------------------------- *)

\* lines 61-67: the email is taken
registerDuplicate(fs, file) ==
    Outcome(users, nextId, cleanupUploadedFile(fs, file), issued, cookie,
            Json(400, FALSE, "Email already registered"))

\* lines 101-109: the catch block
registerCatch(us, nid, fs, file, error) ==
    Outcome(us, nid, cleanupUploadedFile(fs, file), issued, cookie,
            JsonError("User registration failed", error))

\* lines 69-100: hash, create, token, cookie, response
registerCreate(fs, body, file, fault) ==
    LET userData == [name |-> body.name, email |-> body.email,
                     password |-> hash(body.password),
                     profileImage |-> IF file # NoFile THEN ProfilePath(file) ELSE NoImage]
        created == (nextId :> userData) @@ users
    IN  IF fault = "hash"
        THEN registerCatch(users, nextId, fs, file, "hash")
        ELSE IF fault = "create" \/ uniqueViolation(created)
        THEN registerCatch(users, nextId, fs, file, "create")
        ELSE IF fault = "token"
        THEN registerCatch(created, nextId + 1, fs, file, "token")
        ELSE Outcome(created, nextId + 1, fs, issued \cup {nextId}, SignedToken(nextId, FALSE),
                     JsonData(201, "User registered successfully",
                              [user |-> formatUserResponse(created, nextId),
                               token |-> SignedToken(nextId, FALSE)]))

\* register without the lookup of the email
register_nocheck(fs, body, file, fault) == registerCreate(fs, body, file, fault)

\* lines 55-110
register(fs, body, file, fault) ==
    IF verifyEmail(body.email)
    THEN registerDuplicate(fs, file)
    ELSE registerCreate(fs, body, file, fault)

\* the rules of registerValidation; express-validator records the messages
\* on the request.  The rule on profileImage (lines 51-60) reads the
\* upload's content type, which requests here do not carry.
nameErrors(name) ==
    {m \in {"Name is required", "Name must be at least 3 characters long",
            "Name must be at most 30 characters long"} :
        \/ m = "Name is required" /\ Len(name) = 0
        \/ m = "Name must be at least 3 characters long" /\ Len(name) < 3
        \/ m = "Name must be at most 30 characters long" /\ Len(name) > 30}

\* isEmail of validator.js, on the addresses used here: one "@" with a
\* local part before it and a dotted domain after it
isEmail(email) ==
    \E at \in 2..(Len(email) - 3) :
        /\ email[at] = "@"
        /\ \A i \in DOMAIN email : email[i] = "@" => i = at
        /\ \E dot \in (at + 2)..(Len(email) - 2) : email[dot] = "."

emailErrors(email) ==
    {m \in {"Email is required", "Email is invalid"} :
        \/ m = "Email is required" /\ Len(email) = 0
        \/ m = "Email is invalid" /\ ~isEmail(email)}

passwordErrors(password) ==
    {m \in {"Password is required", "Password must be at least 8 characters long",
            "Password must be at most 30 characters long",
            "Password must contain at least one uppercase letter",
            "Password must contain at least one lowercase letter",
            "Password must contain at least one number",
            "Password must contain at least one special character (@$!%*?&)"} :
        \/ m = "Password is required" /\ Len(password) = 0
        \/ m = "Password must be at least 8 characters long" /\ Len(password) < 8
        \/ m = "Password must be at most 30 characters long" /\ Len(password) > 30
        \/ m = "Password must contain at least one uppercase letter"
             /\ Range(password) \cap UpperCase = {}
        \/ m = "Password must contain at least one lowercase letter"
             /\ Range(password) \cap LowerCase = {}
        \/ m = "Password must contain at least one number"
             /\ Range(password) \cap Digits = {}
        \/ m = "Password must contain at least one special character (@$!%*?&)"
             /\ Range(password) \cap Specials = {}}

registerValidation(body) ==
    nameErrors(body.name) \cup emailErrors(body.email) \cup passwordErrors(body.password)

(* ------------------------------- login --------------------------------- *)

loginSuccess(id) ==
    Outcome(users, nextId, files, issued \cup {id}, SignedToken(id, FALSE),
            JsonData(200, "User logged in successfully",
                     [user |-> formatUserResponse(users, id),
                      token |-> SignedToken(id, FALSE)]))

\* lines 117-160
login(body, fault) ==
    LET found == findOneByEmail(body.email)
        id == CHOOSE i \in found : TRUE
    IN  IF fault = "find"
        THEN Outcome(users, nextId, files, issued, cookie, JsonError("Login failed", fault))
        ELSE IF found = {}
        THEN Outcome(users, nextId, files, issued, cookie,
                     Json(401, FALSE, "Invalid email or password"))
        ELSE IF ~compare(body.password, users[id].password)
        THEN Outcome(users, nextId, files, issued, cookie,
                     Json(401, FALSE, "Invalid email or password"))
        ELSE IF fault = "token"
        THEN Outcome(users, nextId, files, issued, cookie, JsonError("Login failed", fault))
        ELSE loginSuccess(id)

\* lines 405-458
login2(body, fault) ==
    LET found == findOneByEmail(body.email)
        id == CHOOSE i \in found : TRUE
    IN  IF fault = "find"
        THEN Outcome(users, nextId, files, issued, cookie, JsonError2("Login failed", fault))
        ELSE IF found = {}
        THEN Outcome(users, nextId, files, issued, cookie, Json(404, FALSE, "User not found"))
        ELSE IF ~compare(body.password, users[id].password)
        THEN Outcome(users, nextId, files, issued, cookie, Json(401, FALSE, "Invalid password"))
        ELSE IF fault = "token"
        THEN Outcome(users, nextId, files, issued, cookie, JsonError2("Login failed", fault))
        ELSE loginSuccess(id)

(* ---------------------------- authMiddleware --------------------------- *)

\* a header lookup that never finds a token
tokenFromHeader_null(header) == NoToken

\* line 8-10: the token of an "Authorization: Bearer <token>" header
tokenFromHeader(header) == IF header.scheme = "Bearer" THEN header.token ELSE NoToken

\* a lookup that prefers the header to the cookie
requestToken_headerFirst(ck, header) ==
    IF tokenFromHeader(header) # NoToken THEN tokenFromHeader(header) ELSE ck

\* line 12: tokenFromCookie || tokenFromHeader; a cookie that is absent
\* or empty (NoToken) gives way to the header
requestToken(ck, header) == IF ck # NoToken THEN ck ELSE tokenFromHeader(header)

\* a middleware that calls next() whatever the token
authMiddleware_open(ck, header) ==
    [next |-> TRUE, user |-> requestToken(ck, header).id, res |-> NoResponse]

\* middlewares/auth.js lines 4-30: whether next() is called, the identity
\* attached to the request, and the response otherwise
authMiddleware(ck, header) ==
    LET token == requestToken(ck, header)
    IN  IF token = NoToken
        THEN [next |-> FALSE, user |-> 0,
              res |-> [status |-> 401,
                       body |-> [message |-> "No token provided, authorization denied"]]]
        ELSE IF jwtVerifyErr(token)
        THEN [next |-> FALSE, user |-> 0,
              res |-> [status |-> 403, body |-> [message |-> "Invalid or expired token"]]]
        ELSE [next |-> TRUE, user |-> token.id, res |-> NoResponse]

(* ------------------------ getProfile, logout --------------------------- *)

\* lines 167-190
getProfile(id, fault) ==
    IF fault = "find"
    THEN Outcome(users, nextId, files, issued, cookie,
                 JsonError("Fetching profile failed", fault))
    ELSE IF id \notin Ids
    THEN Outcome(users, nextId, files, issued, cookie, Json(404, FALSE, "User not found"))
    ELSE Outcome(users, nextId, files, issued, cookie,
                 JsonData(200, "Profile fetched successfully", selectMinusPassword(users, id)))

\* lines 319-339
logout ==
    Outcome(users, nextId, files, issued, NoToken,
            Json(200, TRUE, "User logged out successfully"))

(* ---------------------------- updateProfile ---------------------------- *)

\* findByIdAndUpdate(id, updates): top-level fields are $set; the fields
\* of an explicit $set operator are applied as well.  A password written
\* this way is stored as given, not hashed.
applyUpdate(user, updates) ==
    LET setOps == IF "$set" \in DOMAIN updates THEN updates["$set"] ELSE <<>>
        direct == [k \in DOMAIN updates \ {"$set"} |-> updates[k]]
        all == direct @@ setOps
    IN  [f \in DOMAIN user |->
            IF f \in DOMAIN all
            THEN (IF f = "password" THEN plain(all[f]) ELSE all[f])
            ELSE user[f]]

\* lines 199-203: the update payload without password and email
strippedUpdates(body) == [k \in DOMAIN body \ {"password", "email"} |-> body[k]]

\* lines 206-214: looking up the current user and deleting its image
deleteOldImage(fs, id, file) ==
    IF file # NoFile /\ id \in Ids /\ users[id].profileImage # NoImage
    THEN deleteFile(fs, users[id].profileImage)
    ELSE fs

\* lines 242-251: the catch block
updateProfileCatch(fs, file, error) ==
    Outcome(users, nextId, cleanupUploadedFile(fs, file), issued, cookie,
            JsonError("Updating profile failed", error))

\* lines 230-235
updateProfileNotFound(fs, file) ==
    Outcome(users, nextId, fs, issued, cookie, Json(404, FALSE, "User not found"))

\* lines 197-252
updateProfile(fs, id, body, file, fault) ==
    LET fs1 == deleteOldImage(fs, id, file)
        updates == IF file # NoFile
                   THEN ("profileImage" :> ProfilePath(file)) @@ strippedUpdates(body)
                   ELSE strippedUpdates(body)
        updated == IF id \in Ids
                   THEN [users EXCEPT ![id] = applyUpdate(@, updates)]
                   ELSE users
    IN  IF file # NoFile /\ fault = "find"
        THEN updateProfileCatch(fs, file, fault)
        ELSE IF fault = "update" \/ uniqueViolation(updated)
        THEN updateProfileCatch(fs1, file, "update")
        ELSE IF id \notin Ids
        THEN updateProfileNotFound(fs1, file)
        ELSE Outcome(updated, nextId, fs1, issued, cookie,
                     JsonData(200, "Profile updated successfully",
                              selectMinusPassword(updated, id)))

\* a document as a query returns it when nothing is selected: the password
\* field is excluded by the schema (the handlers that need it select it
\* with "+password")
defaultProjection(us, id) == formatUserResponse(us, id)

\* lines 489-515
updateProfile2(id, body, fault) ==
    LET updates == [k \in DOMAIN body \ {"password"} |-> body[k]]
        updated == IF id \in Ids
                   THEN [users EXCEPT ![id] = applyUpdate(@, updates)]
                   ELSE users
    IN  IF fault = "update" \/ uniqueViolation(updated)
        THEN Outcome(users, nextId, files, issued, cookie,
                     JsonError2("Updating profile failed", "update"))
        ELSE IF id \notin Ids
        THEN Outcome(users, nextId, files, issued, cookie, Json(404, FALSE, "User not found"))
        ELSE Outcome(updated, nextId, files, issued, cookie,
                     JsonData(200, "Profile updated successfully",
                              defaultProjection(updated, id)))

\* lines 463-484
getProfile2(id, fault) ==
    IF fault = "find"
    THEN Outcome(users, nextId, files, issued, cookie,
                 JsonError2("Fetching profile failed", fault))
    ELSE IF id \notin Ids
    THEN Outcome(users, nextId, files, issued, cookie, Json(404, FALSE, "User not found"))
    ELSE Outcome(users, nextId, files, issued, cookie,
                 JsonData(200, "Profile fetched successfully", defaultProjection(users, id)))

(* ---------------------------- changePassword --------------------------- *)

\* line 271
MinNewPasswordLength == 6

\* no length check
newPasswordTooShort_off(newPassword) == FALSE

newPasswordTooShort(newPassword) == Len(newPassword) < MinNewPasswordLength

\* lines 259-312
changePassword(id, body, fault) ==
    IF body.oldPassword = Undefined \/ body.newPassword = Undefined
    THEN Outcome(users, nextId, files, issued, cookie,
                 Json(400, FALSE, "Old password and new password are required"))
    ELSE IF newPasswordTooShort(body.newPassword)
    THEN Outcome(users, nextId, files, issued, cookie,
                 Json(400, FALSE, "New password must be at least 6 characters long"))
    ELSE IF fault = "find"
    THEN Outcome(users, nextId, files, issued, cookie,
                 JsonError("Changing password failed", fault))
    ELSE IF id \notin Ids
    THEN Outcome(users, nextId, files, issued, cookie, Json(404, FALSE, "User not found"))
    ELSE IF ~compare(body.oldPassword, users[id].password)
    THEN Outcome(users, nextId, files, issued, cookie,
                 Json(401, FALSE, "Old password is incorrect"))
    ELSE IF fault = "save"
    THEN Outcome(users, nextId, files, issued, cookie,
                 JsonError("Changing password failed", fault))
    ELSE Outcome([users EXCEPT ![id].password = hash(body.newPassword)],
                 nextId, files, issued, cookie,
                 Json(200, TRUE, "Password changed successfully"))

(* ------------------------------ the routes ------------------------------ *)

ValidBodies == [name : {NameGood}, email : {EmailA, EmailB}, password : {PwStrong}]

\* bodies that break one rule of registerValidation each
InvalidBodies ==
    {[name |-> NameShort, email |-> EmailA, password |-> PwStrong],
     [name |-> NameLong, email |-> EmailA, password |-> PwStrong],
     [name |-> NameGood, email |-> EmailBad, password |-> PwStrong],
     [name |-> NameGood, email |-> EmailA, password |-> PwSix],
     [name |-> NameGood, email |-> EmailA, password |-> PwLong]}

RegisterFaults == {"none", "hash", "create", "token"}

\* authRoutes.js line 19: router.post("/register", registerValidation, register).
\* The validation chain records its errors on the request and calls next().
\* The upload, when the request has one, is stored by uploadProfileImage
\* before the controller runs and reaches it as req.file.
RegisterWith(inputs, uploads) ==
    /\ stage = "idle"
    /\ \E in \in inputs, file \in uploads :
        LET body == in[1]
            fault == in[2]
        IN
          /\ nextId <= MaxUsers \/ verifyEmail(body.email)
          /\ Apply(register(profileStorage(files, file), body, file, fault))
          /\ nextFile' = nextFileAfter(file)
          /\ req' = [Request("register", "POST /register", 0, body, file, fault)
                        EXCEPT !.validationErrors = registerValidation(body)]
    /\ UNCHANGED stage

\* every fault on a valid body, and the invalid bodies without a fault
RegisterInputs == (ValidBodies \X RegisterFaults) \cup (InvalidBodies \X {"none"})

Register == RegisterWith(RegisterInputs, FileInputs)

\* a user record removed from the collection by other means than this API
RemoveUser ==
    /\ stage = "idle"
    /\ \E id \in Ids :
          users' = [i \in Ids \ {id} |-> users[i]]
    /\ req' = Request("removeUser", "none", 0, EmptyBody, NoFile, "none")
    /\ res' = NoResponse
    /\ UNCHANGED <<nextId, files, nextFile, issued, cookie, stage, others>>

\* registrations that pass registerValidation and meet no fault
RegisterValid == RegisterWith(ValidBodies \X {"none"}, {NoFile})

RegisterValidWithImage == RegisterWith(ValidBodies \X {"none"}, FileInputs)

LoginBodies == [email : {EmailA, EmailB}, password : {PwStrong, PwStrong2, PwSix}]

\* authRoutes.js line 20: router.post("/login", login)
Login ==
    /\ stage = "idle"
    /\ \E body \in LoginBodies, fault \in {"none", "find", "token"} :
          /\ Apply(login(body, fault))
          /\ req' = Request("login", "POST /login", 0, body, NoFile, fault)
    /\ UNCHANGED <<nextFile, stage>>

Login2 ==
    /\ stage = "idle"
    /\ \E body \in LoginBodies, fault \in {"none", "find", "token"} :
          /\ Apply(login2(body, fault))
          /\ req' = Request("login2", "POST /login", 0, body, NoFile, fault)
    /\ UNCHANGED <<nextFile, stage>>

\* authRoutes.js line 21: router.post("/logout", logout); the request
\* carries the cookie the client holds
Logout ==
    /\ stage = "idle"
    /\ Apply(logout)
    /\ req' = [Request("logout", "POST /logout", 0, EmptyBody, NoFile, "none")
                  EXCEPT !.cookie = cookie]
    /\ UNCHANGED <<nextFile, stage>>

\* authRoutes.js lines 24-26: the routes behind authMiddleware
ProtectedRoutes == {"GET /profile", "PUT /profile", "POST /change-password"}

\* the first stage of a protected route; the handler is the second stage
\* and runs only when next() was called
AuthMiddlewareOn(routes, cookies, headers) ==
    /\ stage = "idle"
    /\ \E route \in routes, ck \in cookies, header \in headers :
        LET r == authMiddleware(ck, header) IN
          /\ stage' = IF r.next THEN "next" ELSE "idle"
          /\ res' = r.res
          /\ req' = [Request("authMiddleware", route, r.user, EmptyBody, NoFile, "none")
                        EXCEPT !.cookie = ck, !.header = header]
    /\ UNCHANGED <<users, nextId, files, nextFile, issued, cookie, others>>

AuthMiddleware == AuthMiddlewareOn(ProtectedRoutes, {NoToken} \cup PresentableTokens, Headers)

\* requests that carry a token issued to the client, fresh, as a cookie
FreshCookies == {SignedToken(id, FALSE) : id \in issued}

AuthProfile == AuthMiddlewareOn({"PUT /profile"}, FreshCookies, {NoHeader})

AuthChangePassword == AuthMiddlewareOn({"POST /change-password"}, FreshCookies, {NoHeader})

\* GET /profile with every kind of credential
AuthGetProfile ==
    AuthMiddlewareOn({"GET /profile"}, {NoToken} \cup PresentableTokens, Headers)

GetProfile ==
    /\ stage = "next"
    /\ req.route = "GET /profile"
    /\ \E fault \in {"none", "find"} :
          /\ Apply(getProfile(req.user, fault))
          /\ req' = Request("getProfile", req.route, req.user, EmptyBody, NoFile, fault)
    /\ stage' = "idle"
    /\ UNCHANGED nextFile

GetProfile2 ==
    /\ stage = "next"
    /\ req.route = "GET /profile"
    /\ \E fault \in {"none", "find"} :
          /\ Apply(getProfile2(req.user, fault))
          /\ req' = Request("getProfile2", req.route, req.user, EmptyBody, NoFile, fault)
    /\ stage' = "idle"
    /\ UNCHANGED nextFile

NameNew == "Alicia"

\* request bodies of PUT /profile
UpdateBodies ==
    {EmptyBody,
     [name |-> NameNew],
     [email |-> EmailB],
     [password |-> PwSix],
     [name |-> NameNew, email |-> EmailB, password |-> PwSix],
     ("$set" :> [email |-> EmailB]),
     ("$set" :> [password |-> PwSix])}

UpdateProfileWith(bodies, uploads) ==
    /\ stage = "next"
    /\ req.route = "PUT /profile"
    /\ \E body \in bodies, file \in uploads, fault \in {"none", "find", "update"} :
          /\ fault = "find" => file # NoFile
          /\ Apply(updateProfile(profileStorage(files, file), req.user, body, file, fault))
          /\ nextFile' = nextFileAfter(file)
          /\ req' = Request("updateProfile", req.route, req.user, body, file, fault)
    /\ stage' = "idle"

UpdateProfile == UpdateProfileWith(UpdateBodies, FileInputs)

UpdateName == UpdateProfileWith({[name |-> NameNew]}, {NoFile})

UpdateProfile2 ==
    /\ stage = "next"
    /\ req.route = "PUT /profile"
    /\ \E body \in UpdateBodies, fault \in {"none", "update"} :
          /\ Apply(updateProfile2(req.user, body, fault))
          /\ req' = Request("updateProfile2", req.route, req.user, body, NoFile, fault)
    /\ stage' = "idle"
    /\ UNCHANGED nextFile

ChangePasswordBodies ==
    [oldPassword : {PwStrong, PwStrong2, Undefined},
     newPassword : {PwStrong, PwStrong2, PwFive, PwSix, Undefined}]

ChangePasswordWith(bodies) ==
    /\ stage = "next"
    /\ req.route = "POST /change-password"
    /\ \E body \in bodies, fault \in {"none", "find", "save"} :
          /\ Apply(changePassword(req.user, body, fault))
          /\ req' = Request("changePassword", req.route, req.user, body, NoFile, fault)
    /\ stage' = "idle"
    /\ UNCHANGED nextFile

ChangePassword == ChangePasswordWith(ChangePasswordBodies)

ChangeToStrong2 ==
    ChangePasswordWith({[oldPassword |-> PwStrong, newPassword |-> PwStrong2]})

(* ------------------- register requests side by side -------------------- *)

\* the numbers of the requests in progress
InFlight == {p.rid : p \in pending}

\* lines 59-67, up to the await of verifyEmail: a request whose email is
\* taken is answered at once; another goes on and is, until its next
\* await returns, in progress beside the requests that arrive meanwhile
RegisterCheck ==
    /\ stage = "idle"
    /\ \E body \in ValidBodies, rid \in 1..MaxInFlight :
          /\ rid \notin InFlight
          /\ \A other \in 1..(rid - 1) : other \in InFlight
          /\ req' = Request("verifyEmail", "POST /register", 0, body, NoFile, "none")
          /\ IF verifyEmail(body.email)
             THEN /\ res' = registerDuplicate(files, NoFile).res
                  /\ UNCHANGED pending
             ELSE /\ res' = NoResponse
                  /\ pending' = pending \cup {[rid |-> rid, body |-> body]}
    /\ UNCHANGED <<users, nextId, files, nextFile, issued, cookie, stage, documents, quiz>>

\* lines 69-109, from bcrypt.hash on: the request creates its user in
\* the collection as it is by then, and answers
RegisterCreate ==
    /\ stage = "idle"
    /\ \E p \in pending :
        LET out == registerCreate(files, p.body, NoFile, "none") IN
          /\ nextId <= MaxUsers \/ verifyEmail(p.body.email)
          /\ req' = Request("User.create", "POST /register", 0, p.body, NoFile, "none")
          /\ pending' = pending \ {p}
          /\ users' = out.users
          /\ nextId' = out.nextId
          /\ files' = out.files
          /\ issued' = out.issued
          /\ cookie' = out.cookie
          /\ res' = out.res
    /\ UNCHANGED <<nextFile, stage, documents, quiz>>

(* ------------ config/multer.config.js: names and file types ------------ *)

UpperLetters ==
    <<"A", "B", "C", "D", "E", "F", "G", "H", "I", "J", "K", "L", "M",
      "N", "O", "P", "Q", "R", "S", "T", "U", "V", "W", "X", "Y", "Z">>

LowerLetters ==
    <<"a", "b", "c", "d", "e", "f", "g", "h", "i", "j", "k", "l", "m",
      "n", "o", "p", "q", "r", "s", "t", "u", "v", "w", "x", "y", "z">>

DecimalDigits == <<"0", "1", "2", "3", "4", "5", "6", "7", "8", "9">>

\* String.prototype.toLowerCase
toLowerCase(s) ==
    [i \in DOMAIN s |->
        IF \E k \in DOMAIN UpperLetters : UpperLetters[k] = s[i]
        THEN LowerLetters[CHOOSE k \in DOMAIN UpperLetters : UpperLetters[k] = s[i]]
        ELSE s[i]]

\* a number inside a template literal: its decimal digits
RECURSIVE decimal(_)
decimal(n) ==
    IF n < 10 THEN <<DecimalDigits[n + 1]>>
    ELSE decimal(n \div 10) \o <<DecimalDigits[(n % 10) + 1]>>

\* the position of the last "." of a name, 0 when it has none
lastDot(name) ==
    IF \E i \in DOMAIN name : name[i] = "."
    THEN CHOOSE i \in DOMAIN name :
            name[i] = "." /\ \A j \in DOMAIN name : name[j] = "." => j <= i
    ELSE 0

\* path.extname of a name without directories: from the last "." to the
\* end, and "" when the name has no "." or only a leading one
extname(name) ==
    IF lastDot(name) <= 1 THEN <<>> ELSE SubSeq(name, lastDot(name), Len(name))

\* path.basename(name, ext) of a name without directories: the name
\* without the suffix ext
basename(name, ext) ==
    IF /\ ext # <<>>
       /\ Len(ext) < Len(name)
       /\ SubSeq(name, Len(name) - Len(ext) + 1, Len(name)) = ext
    THEN SubSeq(name, 1, Len(name) - Len(ext))
    ELSE name

\* RegExp.prototype.test of an alternation of literals without anchors:
\* some alternative occurs somewhere in s
test(alternatives, s) ==
    \E alt \in alternatives :
        \E i \in 1..(Len(s) - Len(alt) + 1) : SubSeq(s, i, i + Len(alt) - 1) = alt

\* lines 38-47
ALLOWED_IMAGE_TYPES ==
    [extensions |-> {<<"j", "p", "e", "g">>, <<"j", "p", "g">>, <<"p", "n", "g">>,
                     <<"g", "i", "f">>, <<"w", "e", "b", "p">>},
     mimeTypes |-> {"image/jpeg", "image/jpg", "image/png", "image/gif", "image/webp"}]

\* lines 49-59
ALLOWED_DOCUMENT_TYPES ==
    [extensions |-> {<<"p", "d", "f">>, <<"d", "o", "c">>, <<"d", "o", "c", "x">>,
                     <<"t", "x", "t">>, <<"p", "p", "t">>, <<"p", "p", "t", "x">>},
     mimeTypes |-> {"application/pdf",
                    "application/msword",
                    "application/vnd.openxmlformats-officedocument.wordprocessingml.document",
                    "text/plain",
                    "application/vnd.ms-powerpoint",
                    "application/vnd.openxmlformats-officedocument.presentationml.presentation"}]

\* lines 99-105
validateFileType(file, allowedTypes) ==
    LET ext == toLowerCase(extname(file.originalname))
        isValidExtension == test(allowedTypes.extensions, ext)
        isValidMimeType == file.mimetype \in allowedTypes.mimeTypes
    IN  isValidExtension /\ isValidMimeType

\* what a file filter hands to its callback: the error and the verdict
Accepted == [error |-> "none", accept |-> TRUE]

\* lines 150-161
imageFileFilter(file) ==
    IF validateFileType(file, ALLOWED_IMAGE_TYPES)
    THEN Accepted
    ELSE [error |-> "Invalid file type. Only jpeg|jpg|png|gif|webp files are allowed.",
          accept |-> FALSE]

\* lines 166-177
documentFileFilter(file) ==
    IF validateFileType(file, ALLOWED_DOCUMENT_TYPES)
    THEN Accepted
    ELSE [error |-> "Invalid file type. Only pdf|doc|docx|txt|ppt|pptx files are allowed.",
          accept |-> FALSE]

\* the characters the pattern [^a-zA-Z0-9.-] does not match
KeptCharacters ==
    Range(UpperLetters) \cup Range(LowerLetters) \cup Range(DecimalDigits) \cup {".", "-"}

\* a sanitiser that replaces nothing
sanitize_keep(name) == name

\* line 88: .replace(/[^a-zA-Z0-9.-]/g, "_")
sanitize(name) ==
    [i \in DOMAIN name |-> IF name[i] \in KeptCharacters THEN name[i] ELSE "_"]

guest == <<"g", "u", "e", "s", "t">>

\* lines 84-91; now is Date.now() and random is
\* Math.round(Math.random() * 1e9) at the call.
\* userId is req.user?.id, 0 when the request has no verified identity.
generateUniqueFilename(prefix, userId, originalName, now, random) ==
    LET timestamp == now
        randomSuffix == random
        ext == extname(originalName)
        sanitizedName == sanitize(basename(originalName, ext))
    IN  prefix \o <<"-">> \o (IF userId # 0 THEN decimal(userId) ELSE guest)
            \o <<"-">> \o decimal(timestamp) \o <<"-">> \o decimal(randomSuffix)
            \o <<"-">> \o sanitizedName \o ext

\* the prefixes of the two storages (lines 119 and 137)
Prefixes == {<<"p", "r", "o", "f", "i", "l", "e">>, <<"d", "o", "c">>}

my_cv_pdf == <<"m", "y", " ", "c", "v", ".", "p", "d", "f">>
cv_final_v2_pdf == <<"c", "v", "-", "f", "i", "n", "a", "l", ".", "v", "2", ".", "p", "d", "f">>
c_sharp_txt == <<"c", "#", "(", "1", ")", "_", "x", ".", "t", "x", "t">>
CV_DOCX == <<"C", "V", ".", "D", "O", "C", "X">>
notes_odd == <<"n", "o", "t", "e", "s", ".", "t", " ", "x">>

\* original names: plain, with a space, with "-" and ".", with other
\* punctuation, in capitals, without extension, starting with "." and
\* with a space in the extension
NamesToStore ==
    {<<"a", ".", "p", "d", "f">>, my_cv_pdf, cv_final_v2_pdf, c_sharp_txt, CV_DOCX,
     <<"c", "v">>, <<".", "p", "d", "f">>, notes_odd}

\* values of Date.now() and of Math.round(Math.random() * 1e9)
Clock == {0, 1730000}
RandomSuffixes == {0, 7, 1000000000}

\* lines 116-124 and 134-142: the filename callback of a storage calls
\* generateUniqueFilename with its prefix, req.user?.id and the original
\* name, and hands the result to multer
StorageFilename ==
    /\ stage = "idle"
    /\ \E prefix \in Prefixes, userId \in 0..MaxUsers, originalName \in NamesToStore,
          now \in Clock, random \in RandomSuffixes :
          /\ req' = [op |-> "generateUniqueFilename", prefix |-> prefix, userId |-> userId,
                      originalName |-> originalName, now |-> now, random |-> random]
          /\ res' = [status |-> 0, body |-> <<>>,
                      filename |-> generateUniqueFilename(prefix, userId, originalName,
                                                          now, random)]
    /\ UNCHANGED <<users, nextId, files, nextFile, issued, cookie, stage, others>>

(* ------------------ the documents router and its handlers -------------- *)

\* path.join(UPLOAD_DIRS.documents, filename)
DocumentPath(filename) == [dir |-> "uploads/documents", name |-> filename]

\* multer disk storage for documents (lines 130-143): the accepted file
\* is on disk, under a fresh name, before the handler runs
documentStorage(fs, filename) == fs \cup {DocumentPath(filename)}

DocumentRoutes == {"POST /upload", "GET /", "GET /:id", "DELETE /:id", "PUT /:id"}

\* documents router lines 6-10: what each route lists, in order
documentsRouter(route) ==
    CASE route = "POST /upload" -> <<"uploadDocument.single", "uploadDocument">>
      [] route = "GET /" -> <<"getAllDocuments">>
      [] route = "GET /:id" -> <<"getDocumentById">>
      [] route = "DELETE /:id" -> <<"deleteDocument">>
      [] route = "PUT /:id" -> <<"updateDocument">>

DocumentHandlers ==
    {"uploadDocument", "getAllDocuments", "getDocumentById", "deleteDocument",
     "updateDocument"}

\* the handler of a route: the last function it lists
routeHandler(route) == documentsRouter(route)[Len(documentsRouter(route))]

\* what the middleware listed before the handler decides: authMiddleware
\* when the route lists it, and otherwise nothing stands before the
\* handler and req.user stays undefined
routeGuard(route, ck, header) ==
    IF "authMiddleware" \in Range(documentsRouter(route))
    THEN authMiddleware(ck, header)
    ELSE [next |-> TRUE, user |-> 0, res |-> NoResponse]

\* the documents of a user
ownDocuments(user) == {d \in documents : d.owner = user}

\* what a document handler leaves behind
DocumentOutcome(fs, docs, r) == [files |-> fs, documents |-> docs, res |-> r]

\* controllers/documentsController: create the record of an accepted upload
uploadDocumentHandler(fs, user, filename, file) ==
    LET doc == [id |-> filename, owner |-> user, file |-> DocumentPath(filename),
                title |-> file.originalname]
    IN  DocumentOutcome(fs, documents \cup {doc},
                        JsonData(201, "Document uploaded successfully", doc))

\* controllers/documentsController: list-own, get-by-id, update and delete,
\* each scoped to the owner
documentsController(handler, user, id, title) ==
    LET found == {d \in ownDocuments(user) : d.id = id}
        notFound == DocumentOutcome(files, documents, Json(404, FALSE, "Document not found"))
    IN  CASE handler = "getAllDocuments" ->
                DocumentOutcome(files, documents,
                                JsonData(200, "Documents fetched successfully",
                                         ownDocuments(user)))
          [] handler = "getDocumentById" ->
                IF found = {} THEN notFound
                ELSE DocumentOutcome(files, documents,
                                     JsonData(200, "Document fetched successfully", found))
          [] handler = "updateDocument" ->
                IF found = {} THEN notFound
                ELSE LET updated == {[d EXCEPT !.title = title] : d \in found}
                     IN  DocumentOutcome(files, (documents \ found) \cup updated,
                                         JsonData(200, "Document updated successfully",
                                                  updated))
          [] handler = "deleteDocument" ->
                IF found = {} THEN notFound
                ELSE DocumentOutcome(files \ {d.file : d \in found}, documents \ found,
                                     Json(200, TRUE, "Document deleted successfully"))

\* file names as the client sends them
resume_pdf == <<"r", "e", "s", "u", "m", "e", ".", "p", "d", "f">>
resume_PDF == <<"r", "e", "s", "u", "m", "e", ".", "P", "D", "F">>
resume_exe == <<"r", "e", "s", "u", "m", "e", ".", "e", "x", "e">>
resume_txt == <<"r", "e", "s", "u", "m", "e", ".", "t", "x", "t">>
resume_docm == <<"r", "e", "s", "u", "m", "e", ".", "d", "o", "c", "m">>
resume_pdf_exe == <<"r", "e", "s", "u", "m", "e", ".", "p", "d", "f", ".", "e", "x", "e">>
resume == <<"r", "e", "s", "u", "m", "e">>
dot_pdf == <<".", "p", "d", "f">>
photo_png == <<"p", "h", "o", "t", "o", ".", "p", "n", "g">>

OriginalNames ==
    {resume_pdf, resume_PDF, resume_exe, resume_txt, resume_docm, resume_pdf_exe,
     resume, dot_pdf, photo_png}

\* declared content types: the six document types, an image type and
\* the type of an executable
MimeTypes ==
    ALLOWED_DOCUMENT_TYPES.mimeTypes \cup {"image/png", "application/x-msdownload"}

\* the file part of a multipart request
Uploads == [originalname : OriginalNames, mimetype : MimeTypes]

GenuinePdf == [originalname |-> resume_pdf, mimetype |-> "application/pdf"]

\* router.post("/upload", uploadDocument.single("document"), uploadDocument),
\* mounted at /api/documents: the file filter, the disk storage, then the
\* handler; an error of the file filter goes to the error handler
UploadDocumentWith(cookies, headers, uploads) ==
    /\ stage = "idle"
    /\ nextFile <= MaxFiles
    /\ \E ck \in cookies, header \in headers, file \in uploads :
        LET guard == routeGuard("POST /upload", ck, header)
            filter == documentFileFilter(file)
            out == uploadDocumentHandler(documentStorage(files, nextFile), guard.user,
                                         nextFile, file)
            ran == IF ~guard.next THEN "authMiddleware"
                   ELSE IF ~filter.accept THEN "uploadDocument.single"
                   ELSE routeHandler("POST /upload")
        IN
          /\ req' = [Request(ran, "POST /upload", guard.user, EmptyBody, file, "none")
                        EXCEPT !.cookie = ck, !.header = header]
          /\ IF ~guard.next
             THEN res' = guard.res /\ UNCHANGED <<files, nextFile, documents>>
             ELSE IF ~filter.accept
             THEN /\ res' = globalErrorHandler(filter.error)
                  /\ UNCHANGED <<files, nextFile, documents>>
             ELSE /\ res' = out.res
                  /\ files' = out.files
                  /\ documents' = out.documents
                  /\ nextFile' = nextFile + 1
    /\ UNCHANGED <<users, nextId, issued, cookie, stage, pending, quiz>>

\* the credentials of a request: no cookie or any presentable token as
\* cookie, and no Authorization header
AnyCookie == {NoToken} \cup PresentableTokens

UploadGenuinePdf == UploadDocumentWith(AnyCookie, {NoHeader}, {GenuinePdf})

\* uploads of every name under every declared content type, without credentials
UploadDocument == UploadDocumentWith({NoToken}, {NoHeader}, Uploads)

\* an upload that the file filter accepts and one that it rejects
UploadPdfOrExe ==
    UploadDocumentWith({NoToken}, {NoHeader},
                       {GenuinePdf,
                        [originalname |-> resume_exe, mimetype |-> "application/x-msdownload"]})

Titles == {resume_pdf, resume_txt}

\* router.get("/"), router.get("/:id"), router.delete("/:id"), router.put("/:id")
DocumentsRoute ==
    /\ stage = "idle"
    /\ \E route \in DocumentRoutes \ {"POST /upload"}, ck \in AnyCookie,
          id \in 1..MaxFiles, title \in Titles :
        LET guard == routeGuard(route, ck, NoHeader)
            out == documentsController(routeHandler(route), guard.user, id, title)
            body == IF route = "PUT /:id" THEN [title |-> title] ELSE EmptyBody
        IN
          /\ route # "PUT /:id" => title = resume_txt
          /\ route = "GET /" => id = 1
          /\ req' = [Request(IF guard.next THEN routeHandler(route) ELSE "authMiddleware",
                             route, guard.user, body, NoFile, "none")
                        EXCEPT !.cookie = ck, !.header = NoHeader]
          /\ IF ~guard.next
             THEN res' = guard.res /\ UNCHANGED <<files, documents>>
             ELSE /\ res' = out.res
                  /\ files' = out.files
                  /\ documents' = out.documents
    /\ UNCHANGED <<users, nextId, nextFile, issued, cookie, stage, pending, quiz>>

(* ------------------------- models/Quiz.js, quizzes --------------------- *)

\* no quiz has been generated
NoQuiz == <<>>

Difficulties == {"easy", "medium", "hard"}

\* a schema whose score defaults to 1
quizSchema_scoreOne(doc) == doc @@ [userAnswers |-> <<>>, score |-> 1, answerAttempts |-> 0]

\* lines 3-76: the document that new Quiz(doc) builds; the fields the
\* caller leaves out take their defaults (an array is empty, score and
\* answerAttempts are 0), completedAt stays absent
quizSchema(doc) == doc @@ [userAnswers |-> <<>>, score |-> 0, answerAttempts |-> 0]

\* lines 3-65: the required fields are there and difficulty is in its enum
quizValid(doc) ==
    /\ {"userId", "documentId", "questions", "totalQuestions"} \subseteq DOMAIN doc
    /\ \A i \in DOMAIN doc.questions :
          /\ {"question", "correctAnswer", "difficulty"} \subseteq DOMAIN doc.questions[i]
          /\ doc.questions[i].difficulty \in Difficulties
    /\ \A i \in DOMAIN doc.userAnswers :
          {"questionIndex", "selectedAnswer", "isCorrect"} \subseteq DOMAIN doc.userAnswers[i]

Answers == {"a", "b"}

\* the questions generated from a document: one to MaxQuestions
\* questions, each with its correct answer
GeneratedQuestions ==
    UNION {[1..n -> [question : {"q"}, correctAnswer : Answers, difficulty : {"medium"}]] :
              n \in 1..MaxQuestions}

\* the quiz controller: a quiz is created after generation from a document
generateQuiz(userId, documentId, questions) ==
    quizSchema([userId |-> userId, documentId |-> documentId, questions |-> questions,
                totalQuestions |-> Len(questions)])

\* the quiz controller: an answer refers to a question by its index (from
\* 0); it is recorded with its correctness and counted in the score
answerQuestion(q, questionIndex, selectedAnswer) ==
    LET isCorrect == selectedAnswer = q.questions[questionIndex + 1].correctAnswer
        answer == [questionIndex |-> questionIndex, selectedAnswer |-> selectedAnswer,
                   isCorrect |-> isCorrect]
    IN  [q EXCEPT !.userAnswers = Append(@, answer),
                  !.score = IF isCorrect THEN @ + 1 ELSE @,
                  !.answerAttempts = @ + 1]

\* the quiz controller: submission completes the quiz, once
submitQuiz(q) == ("completedAt" :> "now") @@ q

GenerateQuiz ==
    /\ stage = "idle"
    /\ quiz = NoQuiz
    /\ \E questions \in GeneratedQuestions :
        LET created == generateQuiz(1, 1, questions) IN
          /\ quizValid(created)
          /\ quiz' = created
          /\ req' = Request("generateQuiz", "POST /api/quiz", 1,
                            [documentId |-> 1], NoFile, "none")
          /\ res' = JsonData(201, "Quiz generated successfully", created)
    /\ UNCHANGED <<users, nextId, files, nextFile, issued, cookie, stage, pending, documents>>

\* indexes a client may send: those of the questions, and one before and
\* one behind them
QuestionIndexes == (0 - 1)..MaxQuestions

AnswerQuestion ==
    /\ stage = "idle"
    /\ quiz # NoQuiz
    /\ \E questionIndex \in QuestionIndexes, selectedAnswer \in Answers :
        LET body == [questionIndex |-> questionIndex, selectedAnswer |-> selectedAnswer]
            answered == answerQuestion(quiz, questionIndex, selectedAnswer)
        IN
          /\ req' = Request("answerQuestion", "POST /api/quiz/:id/answer", 1, body,
                            NoFile, "none")
          /\ IF "completedAt" \in DOMAIN quiz
             THEN /\ res' = Json(400, FALSE, "Quiz already completed")
                  /\ UNCHANGED quiz
             ELSE IF questionIndex < 0 \/ questionIndex >= Len(quiz.questions)
             THEN /\ res' = Json(400, FALSE, "Invalid question index")
                  /\ UNCHANGED quiz
             ELSE /\ Len(quiz.userAnswers) < MaxAnswers
                  /\ quizValid(answered)
                  /\ quiz' = answered
                  /\ res' = JsonData(200, "Answer recorded", answered)
    /\ UNCHANGED <<users, nextId, files, nextFile, issued, cookie, stage, pending, documents>>

SubmitQuiz ==
    /\ stage = "idle"
    /\ quiz # NoQuiz
    /\ req' = Request("submitQuiz", "POST /api/quiz/:id/submit", 1, EmptyBody, NoFile, "none")
    /\ IF "completedAt" \in DOMAIN quiz
       THEN /\ res' = Json(400, FALSE, "Quiz already completed")
            /\ UNCHANGED quiz
       ELSE /\ quiz' = submitQuiz(quiz)
            /\ res' = JsonData(200, "Quiz submitted", submitQuiz(quiz))
    /\ UNCHANGED <<users, nextId, files, nextFile, issued, cookie, stage, pending, documents>>

\* the protected routes with the cookie of a registration or login
AuthFresh == AuthMiddlewareOn(ProtectedRoutes, FreshCookies, {NoHeader})

\* registrations that pass registerValidation, with every fault
RegisterFaulty == RegisterWith(ValidBodies \X RegisterFaults, {NoFile})

UpdateProfileNoImage == UpdateProfileWith(UpdateBodies, {NoFile})

ChangePasswordSome ==
    ChangePasswordWith({[oldPassword |-> PwStrong, newPassword |-> PwStrong2],
                        [oldPassword |-> PwStrong2, newPassword |-> PwStrong],
                        [oldPassword |-> PwStrong, newPassword |-> PwFive],
                        [oldPassword |-> Undefined, newPassword |-> PwStrong2]})

Init ==
    /\ users = <<>>
    /\ nextId = 1
    /\ files = {}
    /\ nextFile = 1
    /\ issued = {}
    /\ cookie = NoToken
    /\ stage = "idle"
    /\ req = Request("none", "none", 0, EmptyBody, NoFile, "none")
    /\ res = NoResponse
    /\ pending = {}
    /\ documents = {}
    /\ quiz = NoQuiz

\* the protected routes behind authMiddleware, with every kind of credential
Next ==
    \/ RegisterValid
    \/ AuthMiddleware
    \/ GetProfile
    \/ UpdateName
    \/ ChangeToStrong2
    \/ RemoveUser

Spec == Init /\ [][Next]_vars

\* registration with every kind of body and fault
NextRegister ==
    \/ Register
    \/ RemoveUser

SpecRegister == Init /\ [][NextRegister]_vars

\* profile updates with every kind of body, with and without an image
NextProfile ==
    \/ RegisterValidWithImage
    \/ AuthProfile
    \/ UpdateProfile
    \/ UpdateProfile2
    \/ RemoveUser

SpecProfile == Init /\ [][NextProfile]_vars

\* passwords: login with both definitions, and password change
NextPassword ==
    \/ RegisterValid
    \/ Login
    \/ Login2
    \/ AuthChangePassword
    \/ ChangePassword
    \/ RemoveUser

SpecPassword == Init /\ [][NextPassword]_vars

\* the documents router, with and without credentials
NextDocuments ==
    \/ RegisterValid
    \/ UploadGenuinePdf
    \/ DocumentsRoute

SpecDocuments == Init /\ [][NextDocuments]_vars

\* sessions: register, login, logout, and GET /profile with every credential
NextSession ==
    \/ RegisterValid
    \/ Login
    \/ Logout
    \/ AuthGetProfile
    \/ GetProfile

SpecSession == Init /\ [][NextSession]_vars

\* file intake of the document endpoint
NextIntake ==
    \/ UploadDocument
    \/ DocumentsRoute

SpecIntake == Init /\ [][NextIntake]_vars

\* every handler of the auth controller that answers with a payload
NextResponses ==
    \/ RegisterFaulty
    \/ Login
    \/ Login2
    \/ AuthFresh
    \/ GetProfile
    \/ GetProfile2
    \/ UpdateProfileNoImage
    \/ UpdateProfile2
    \/ ChangePasswordSome
    \/ RemoveUser

SpecResponses == Init /\ [][NextResponses]_vars

\* the three places that answer errors: authMiddleware, the handlers of
\* the controller, and the error handler behind the upload
NextErrors ==
    \/ RegisterFaulty
    \/ AuthGetProfile
    \/ GetProfile
    \/ UploadPdfOrExe

SpecErrors == Init /\ [][NextErrors]_vars

\* the life of a quiz: generated, answered, submitted
NextQuiz ==
    \/ GenerateQuiz
    \/ AnswerQuestion
    \/ SubmitQuiz

SpecQuiz == Init /\ [][NextQuiz]_vars

\* the names the storages give to uploads
NextFilename == StorageFilename

SpecFilename == Init /\ [][NextFilename]_vars

\* register requests whose steps interleave
NextConcurrent ==
    \/ RegisterCheck
    \/ RegisterCreate
    \/ RemoveUser

SpecConcurrent == Init /\ [][NextConcurrent]_vars

(* ------------------------------- claims -------------------------------- *)

WithEmail(us, email) == {id \in DOMAIN us : us[id].email = email}

\* C1: once a user record with an email exists, a register request with
\* that email is answered 400 "Email already registered" and writes no user
\* record, and no email is ever held by more than one record.
C1_DuplicateEmailRejected ==
    [][/\ (req'.op = "register" /\ WithEmail(users, req'.body.email) # {})
            => /\ res' = Json(400, FALSE, "Email already registered")
               /\ users' = users
               /\ Cardinality(WithEmail(users', req'.body.email)) = 1
       /\ \A email \in Emails : Cardinality(WithEmail(users', email)) <= 1]_vars

C1_Witness ==
    /\ req.op = "register"
    /\ res.status = 400
    /\ Cardinality(WithEmail(users, req.body.email)) = 1
    /\ Cardinality(DOMAIN users) = 2

\* C5: a registration that carried an image and did not succeed leaves
\* that image's file out of profile storage.
C5_FailedRegisterLeavesNoFile ==
    (req.op = "register" /\ req.file # NoFile /\ res.status # 201)
        => ProfilePath(req.file) \notin files

C5_Witness ==
    /\ req.op = "register"
    /\ req.file # NoFile
    /\ res.status = 500
    /\ req.fault = "token"
    /\ ProfilePath(req.file) \notin files

\* a response that reports validation errors with field-level messages
IsValidationError(r) == r.status \in {400, 422} /\ "errors" \in DOMAIN r.body

\* C10: a register request that breaks a rule of registerValidation is
\* answered with a validation error and creates no user record.
C10_InvalidRegisterRejected ==
    [][(req'.op = "register" /\ registerValidation(req'.body) # {})
          => (IsValidationError(res') /\ users' = users)]_vars

ProtectedHandlers == {"getProfile", "updateProfile", "updateProfile2", "changePassword"}

StoreUnchanged == UNCHANGED <<users, nextId, files, nextFile, issued, cookie>>

\* the request carries no token: no cookie and no Bearer header
CarriesNoToken(r) == r.cookie = NoToken /\ r.header.scheme # "Bearer"

\* the token the request carries fails signature or expiry verification
CarriesBadToken(r) ==
    \/ r.cookie # NoToken /\ jwtVerifyErr(r.cookie)
    \/ r.cookie = NoToken /\ r.header.scheme = "Bearer" /\ jwtVerifyErr(r.header.token)

\* C2: a request without a token is answered 401 and one whose token fails
\* verification 403, in both cases without next() and without any change
\* of the store; a protected handler runs only on a request for which
\* authMiddleware has just verified a token.
C2_HandlersBehindVerifiedToken ==
    [][/\ (req'.op = "authMiddleware" /\ CarriesNoToken(req'))
            => (res'.status = 401 /\ stage' = "idle" /\ StoreUnchanged)
       /\ (req'.op = "authMiddleware" /\ CarriesBadToken(req'))
            => (res'.status = 403 /\ stage' = "idle" /\ StoreUnchanged)
       /\ (req'.op \in ProtectedHandlers)
            => /\ req.op = "authMiddleware"
               /\ ~CarriesNoToken(req)
               /\ ~CarriesBadToken(req)
               /\ req'.user \in issued]_vars

C2_Witness ==
    /\ req.op = "authMiddleware"
    /\ res.status = 403
    /\ req.cookie # NoToken
    /\ req.cookie.expired
    /\ req.header.scheme = "Bearer"
    /\ ~jwtVerifyErr(req.header.token)
    /\ stage = "idle"

Logins == {"login", "login2"}

\* C3: a login rejected for a wrong password and a login rejected for an
\* unknown email, by the same handler, get the same response.
C3_LoginFailuresIdentical ==
    [][(/\ req.op \in Logins /\ req.fault = "none"
        /\ WithEmail(users, req.body.email) # {}
        /\ res.status # 200
        /\ req'.op = req.op /\ req'.fault = "none"
        /\ WithEmail(users, req'.body.email) = {})
          => res' = res]_vars

\* the user a changePassword request is about, and whether its old
\* password is the stored one
OldPasswordMatches(r) ==
    /\ r.user \in DOMAIN users
    /\ users[r.user].password = hash(r.body.oldPassword)

\* a login, right after a successful password change, of the user who
\* changed the password
LoginAfterChange ==
    /\ req.op = "changePassword"
    /\ res.status = 200
    /\ req.user \in DOMAIN users
    /\ req'.op = "login"
    /\ req'.fault = "none"
    /\ req'.body.email = users[req.user].email

C8_ShortRejectedLongAccepted ==
    /\ (req'.op = "changePassword" /\ OldPasswordMatches(req')
          /\ Len(req'.body.newPassword) = 5)
         => (res'.status = 400 /\ users' = users)
    /\ (req'.op = "changePassword" /\ OldPasswordMatches(req')
          /\ Len(req'.body.newPassword) >= 6 /\ req'.fault = "none")
         => /\ res'.status = 200
            /\ users' = [users EXCEPT ![req'.user].password = hash(req'.body.newPassword)]

BothPasswordsGiven(r) == r.body.oldPassword # Undefined /\ r.body.newPassword # Undefined

\* C9 as stated: changePassword answers 401 on a wrong old password and a
\* validation error on a new password that breaks the registration rules,
\* so every stored password satisfies the registration rules.
C9_Original ==
    [][/\ (req'.op = "changePassword" /\ req'.fault = "none" /\ req'.user \in DOMAIN users
             /\ BothPasswordsGiven(req'))
            => /\ (~OldPasswordMatches(req') /\ passwordErrors(req'.body.newPassword) = {})
                    => (res'.status = 401 /\ users' = users)
               /\ (OldPasswordMatches(req') /\ passwordErrors(req'.body.newPassword) # {})
                    => (res'.status = 400 /\ users' = users)
       /\ \A id \in DOMAIN users' :
            /\ users'[id].password.kind = "bcrypt"
            /\ passwordErrors(users'[id].password.of) = {}]_vars

\* C9 as amended: changePassword answers 401 on a wrong old password and
\* 400 on a new password shorter than 6 characters, and enforces no other
\* rule: a password it stores is the hash of a new password of 6 or more
\* characters.
C9_MinLengthOnly ==
    [][(req'.op = "changePassword" /\ req'.fault = "none" /\ req'.user \in DOMAIN users
          /\ BothPasswordsGiven(req'))
         => /\ (~OldPasswordMatches(req') /\ Len(req'.body.newPassword) >= 6)
                 => (res'.status = 401 /\ users' = users)
            /\ Len(req'.body.newPassword) < 6
                 => (res'.status = 400 /\ users' = users)
            /\ users' # users
                 => /\ Len(req'.body.newPassword) >= 6
                    /\ users'[req'.user].password = hash(req'.body.newPassword)]_vars

C9_Witness ==
    /\ req.op = "changePassword"
    /\ res.status = 200
    /\ passwordErrors(req.body.newPassword) # {}
    /\ req.user \in DOMAIN users
    /\ users[req.user].password = hash(req.body.newPassword)

\* C4: when an updateProfile request with a replacement image fails, the
\* user's previous image file is still in storage and the user record
\* still references it.
C4_OldImageKeptOnFailure ==
    [][(/\ req'.op = "updateProfile"
        /\ req'.file # NoFile
        /\ res'.status # 200
        /\ req'.user \in DOMAIN users
        /\ users[req'.user].profileImage \in files)
          => /\ users[req'.user].profileImage \in files'
             /\ req'.user \in DOMAIN users'
             /\ users'[req'.user].profileImage = users[req'.user].profileImage]_vars

\* C6: when an updateProfile request that carried an image fails, with
\* NotFound or with an error, the uploaded file is not left in storage.
C6_FailedUpdateLeavesNoFile ==
    (req.op = "updateProfile" /\ req.file # NoFile /\ res.status # 200)
        => ProfilePath(req.file) \notin files

\* C7: updateProfile, in either definition and for every body, leaves the
\* user's email and password hash as they were.
C7_EmailAndPasswordUntouched ==
    [][(req'.op \in {"updateProfile", "updateProfile2"} /\ req'.user \in DOMAIN users)
          => /\ req'.user \in DOMAIN users'
             /\ users'[req'.user].email = users[req'.user].email
             /\ users'[req'.user].password = users[req'.user].password]_vars

\* C11: a document handler (upload, list, get-by-id, update, delete) runs
\* only for a request that carries a token which passes verification.
C11_DocumentsBehindVerifiedToken ==
    [][(req'.op \in DocumentHandlers)
          => (~CarriesNoToken(req') /\ ~CarriesBadToken(req'))]_vars

\* an unexpired token signed by the server
IsFresh(token) == token.sig = "JWT_SECRET" /\ ~token.expired /\ token.id \in issued

\* C12: logout answers 200 and clears the cookie of the client, and changes
\* nothing else: no user record and no issued token.  A request made
\* afterwards (or at any time) without cookie that presents an unexpired
\* token in an Authorization: Bearer header passes authMiddleware with the
\* identity of that token, and the handler behind it may run.
C12_LogoutKeepsTokenValid ==
    [][/\ (req'.op = "logout")
            => /\ cookie' = NoToken
               /\ res'.status = 200
               /\ UNCHANGED <<users, nextId, files, nextFile, issued>>
       /\ (/\ req'.op = "authMiddleware"
           /\ req'.cookie = NoToken
           /\ req'.header.scheme = "Bearer"
           /\ IsFresh(req'.header.token))
            => /\ stage' = "next"
               /\ req'.user = req'.header.token.id
               /\ res' = NoResponse]_vars

\* the token that a logout has just cleared from the cookie is presented
\* as a bearer token by the next request, and accepted
C12_Witness ==
    /\ cookie = NoToken
    /\ Cardinality(issued) = 1
    /\ req.op = "authMiddleware"
    /\ req.cookie = NoToken
    /\ req.header.scheme = "Bearer"
    /\ IsFresh(req.header.token)
    /\ stage = "next"

\* the content type that belongs to each allowed document extension
DocumentTypeOf ==
    (<<".", "p", "d", "f">> :> "application/pdf")
    @@ (<<".", "d", "o", "c">> :> "application/msword")
    @@ (<<".", "d", "o", "c", "x">> :>
            "application/vnd.openxmlformats-officedocument.wordprocessingml.document")
    @@ (<<".", "t", "x", "t">> :> "text/plain")
    @@ (<<".", "p", "p", "t">> :> "application/vnd.ms-powerpoint")
    @@ (<<".", "p", "p", "t", "x">> :>
            "application/vnd.openxmlformats-officedocument.presentationml.presentation")

\* the extension of the upload is an allowed one, its declared content
\* type is the one of that extension
TypesAgree(file) ==
    LET ext == toLowerCase(extname(file.originalname))
    IN  ext \in DOMAIN DocumentTypeOf /\ file.mimetype = DocumentTypeOf[ext]

\* the steps in which the document endpoint decides on an upload
IntakeAccepted == req'.route = "POST /upload" /\ req'.op = "uploadDocument"
IntakeRejected == req'.route = "POST /upload" /\ req'.op = "uploadDocument.single"

\* C13: the document endpoint accepts an upload only when its extension and
\* its declared content type are both allowed and name the same type; a
\* rejected upload is answered with an error and nothing is stored;
\* resume.exe is rejected under every content type and resume.pdf declared
\* application/pdf is accepted.
C13_ExtensionAndTypeAgree ==
    [][/\ IntakeAccepted => TypesAgree(req'.file)
       /\ IntakeRejected => (res'.status >= 400 /\ UNCHANGED <<files, documents>>)
       /\ (IntakeAccepted \/ IntakeRejected)
            => /\ req'.file.originalname = resume_exe => IntakeRejected
               /\ req'.file = GenuinePdf => IntakeAccepted]_vars

PayloadHandlers ==
    {"register", "login", "login2", "getProfile", "getProfile2", "updateProfile",
     "updateProfile2", "changePassword"}

\* the field names of a response body, of its data and of the user in it
PayloadFields(body) ==
    LET data == IF "data" \in DOMAIN body THEN body.data ELSE <<>>
        user == IF "user" \in DOMAIN data THEN data.user ELSE <<>>
    IN  DOMAIN body \cup DOMAIN data \cup DOMAIN user

\* C14: whatever the request and the outcome, the response of register,
\* login, getProfile, updateProfile and changePassword (both definitions
\* of each) has no password field, neither at the top nor in its data
\* nor in the user it returns.
C14_NoPasswordInPayload ==
    (req.op \in PayloadHandlers) => ("password" \notin PayloadFields(res.body))

\* the second getProfile returns the document of a user whose record
\* holds a password
C14_Witness ==
    /\ req.op = "getProfile2"
    /\ res.status = 200
    /\ "password" \in DOMAIN users[req.user]
    /\ res.body.data.email = users[req.user].email

\* C15: every error response (status 400 and above), whether authMiddleware,
\* a handler of the controller or the global error handler sent it, has a
\* success field that is false and a message field, and besides them at
\* most an error field.
C15_ErrorEnvelope ==
    (res.status >= 400)
        => /\ {"success", "message"} \subseteq DOMAIN res.body
           /\ DOMAIN res.body \subseteq {"success", "message", "error"}
           /\ res.body.success = FALSE

\* the recorded answers that are flagged correct
CorrectAnswers(q) == {i \in DOMAIN q.userAnswers : q.userAnswers[i].isCorrect}

AlphaNumeric == Range(UpperLetters) \cup Range(LowerLetters) \cup Range(DecimalDigits)

\* what precedes the sanitized name: prefix, owner, timestamp and random
\* suffix, each followed by "-"
FilenameHead(r) ==
    r.prefix \o <<"-">> \o (IF r.userId = 0 THEN <<"g", "u", "e", "s", "t">>
                            ELSE decimal(r.userId))
        \o <<"-">> \o decimal(r.now) \o <<"-">> \o decimal(r.random) \o <<"-">>

OriginalExt(r) == extname(r.originalName)
OriginalBase(r) == basename(r.originalName, extname(r.originalName))

\* the filename is head, then as many characters as the base name has,
\* then the original extension
FilenameShape(r, filename) ==
    /\ Len(filename) = Len(FilenameHead(r)) + Len(OriginalBase(r)) + Len(OriginalExt(r))
    /\ SubSeq(filename, 1, Len(FilenameHead(r))) = FilenameHead(r)
    /\ SubSeq(filename, Len(filename) - Len(OriginalExt(r)) + 1, Len(filename))
            = OriginalExt(r)

\* the character of the filename in the place of the i-th of the base name
InPlaceOf(r, filename, i) == filename[Len(FilenameHead(r)) + i]

\* C17 as stated: the filename is prefix, owner (the user id, or guest
\* without one), timestamp, random suffix and sanitized base name joined
\* by "-" and followed by the original extension; in the sanitized base
\* name every letter and digit is kept and every other character of the
\* base name is replaced by "_".
C17_Original ==
    (req.op = "generateUniqueFilename")
        => /\ FilenameShape(req, res.filename)
           /\ \A i \in 1..Len(OriginalBase(req)) :
                 InPlaceOf(req, res.filename, i)
                    = IF OriginalBase(req)[i] \in AlphaNumeric
                      THEN OriginalBase(req)[i] ELSE "_"

\* C17 amended: as above, but "." and "-" are kept like letters and
\* digits; every other character of the base name is replaced by "_".
C17_FilenameComposition ==
    (req.op = "generateUniqueFilename")
        => /\ FilenameShape(req, res.filename)
           /\ \A i \in 1..Len(OriginalBase(req)) :
                 InPlaceOf(req, res.filename, i)
                    = IF OriginalBase(req)[i] \in AlphaNumeric \cup {".", "-"}
                      THEN OriginalBase(req)[i] ELSE "_"

\* a name for an unauthenticated upload of "my cv.pdf": the space is
\* replaced and the extension kept
C17_Witness ==
    /\ req.op = "generateUniqueFilename"
    /\ req.userId = 0
    /\ req.originalName = my_cv_pdf
    /\ req.prefix = <<"d", "o", "c">>
    /\ req.now = 0 /\ req.random = 7
    /\ res.filename = <<"d", "o", "c", "-", "g", "u", "e", "s", "t", "-", "0", "-", "7", "-",
                        "m", "y", "_", "c", "v", ".", "p", "d", "f">>

\* the request carries a token in the cookie and one in a Bearer header
CarriesBoth(r) == r.cookie # NoToken /\ r.header.scheme = "Bearer"

\* C18: when a request carries both a token cookie and a Bearer header,
\* the cookie token alone decides: if it fails verification the request is
\* answered 403 and no handler runs, however good the bearer token is; if
\* it passes, next() is called with the identity of the cookie token.
C18_CookieTokenDecides ==
    [][(req'.op = "authMiddleware" /\ CarriesBoth(req'))
          => IF jwtVerifyErr(req'.cookie)
             THEN res'.status = 403 /\ stage' = "idle"
             ELSE /\ stage' = "next"
                  /\ req'.user = req'.cookie.id
                  /\ res' = NoResponse]_vars

\* an expired cookie token with a good bearer token of a registered user
\* is answered 403
C18_Witness ==
    /\ req.op = "authMiddleware"
    /\ req.cookie.sig = "JWT_SECRET" /\ req.cookie.expired
    /\ req.header.scheme = "Bearer"
    /\ req.header.token.sig = "JWT_SECRET" /\ ~req.header.token.expired
    /\ req.header.token.id \in issued
    /\ res.status = 403
    /\ stage = "idle"

\* the user records with the email of request r
Holding(us, r) == {id \in DOMAIN us : us[id].email = r.body.email}

\* C19: of the register requests with one email that are in progress
\* together, each having found the email free, at most one creates a user:
\* a creation succeeds (201) only when no record has the email, adds one
\* record, and any later one fails without a new record; no two records
\* ever have the same email.
C19_OneRegistrationPerEmail ==
    [][(req'.op = "User.create")
          => /\ IF Holding(users, req') = {}
                THEN /\ res'.status = 201
                     /\ Cardinality(Holding(users', req')) = 1
                ELSE /\ res'.status = 500
                     /\ users' = users
             /\ \A i, j \in DOMAIN users' :
                   i # j => users'[i].email # users'[j].email]_vars

\* a request that found its email free and lost the race: the other
\* request with the same email, in progress beside it, created the user
\* first
C19_Witness ==
    /\ req.op = "User.create"
    /\ res.status = 500
    /\ Cardinality(Holding(users, req)) = 1

====
